---------------------------- MODULE Spec2Model ----------------------------
(***************************************************************************)
(* A model of the dispatch engine of mmore:                                *)
(*   - Dispatcher.dispatch and its nested batch_list (best-fit decreasing  *)
(*     batching), Dispatcher._bucket_files, Dispatcher._dispatch_local and *)
(*     Dispatcher.save_individual_processor_results (process/dispatcher.py)*)
(*   - ExecutionState (process/execution_state.py), its calls made one at  *)
(*     a time and its initialize run by concurrent threads                 *)
(*   - TextProcessor.process_one_file (process/processors/txt_processor.py)*)
(* Python's None is the empty sequence, a present value x is <<x>>.        *)
(***************************************************************************)
EXTENDS Integers, Sequences, FiniteSets, TLC

None == <<>>
Some(x) == <<x>>

(***************************************************************************)
(* Bounds of the model.                                                    *)
(***************************************************************************)
MaxLen == 3      \* longest bucket enumerated exhaustively
MaxCost == 2     \* largest item cost enumerated exhaustively
MaxCap == 3      \* largest capacity enumerated exhaustively
MaxCalls == 4    \* ExecutionState calls in one run
MaxFiles == 2    \* files in a crawl result
MaxRuns == 2     \* runs of _bucket_files (alone or inside dispatch)
MaxSpare == 1    \* next() calls made on a generator that has ended
MaxThreads == 2  \* threads that call ExecutionState.initialize concurrently
MaxBatch == 2    \* files in the batch of a TextProcessor

(***************************************************************************)
(* Program constants.                                                      *)
(***************************************************************************)
UNSIZED == -1              \* the cost batch_list filters out
DefaultBatchSize == 100    \* batch_sizes.get(processor.__name__, 100)

VARIABLES
    \* ---- batch_list, called on one bucket with several capacities
    lst,              \* the bucket handed to batch_list
    obj_batch_size,   \* capacity of the latest batch_list call (None: no call yet)
    batches,          \* the batches the latest call returned
    prev_call,        \* None, or <<capacity, number of batches>> of the call before
    \* ---- ExecutionState (class attributes) and the cluster it talks to
    use_dask,         \* ExecutionState._use_dask: None, Some(TRUE), Some(FALSE)
    dask_var,         \* ExecutionState._dask_var: None or Some(name of the Variable)
    local_state,      \* ExecutionState._local_state
    cell,             \* the cluster's value of the Variable: None (never set) or Some(b)
    cluster_up,       \* whether the scheduler connection works
    last_call,        \* the latest ExecutionState call and how it ended
    ncalls,           \* number of ExecutionState calls made
    init_called,      \* some initialize call has been made
    init_ok,          \* some initialize call has returned normally
    \* ---- Dispatcher
    result,           \* self.result: [file_paths, urls]
    config,           \* self.config: DispatcherConfig
    intermediate_map, \* self.intermediate_map
    bucket_runs,      \* completed runs of _bucket_files
    gen,              \* the generator the latest dispatch() returned
    yielded,          \* the results that generator has yielded
    disk,             \* per processor type: None, or Some(lines of results.jsonl)
    disp_call,        \* the latest Dispatcher call and how it ended
    \* ---- concurrent initialize calls
    th,               \* per thread: the frame of its initialize call
    \* ---- TextProcessor
    txt_files,        \* the files of the batch, each with what open/read does
    txt_samples,      \* the samples process_one_file has returned, in order
    txt_call          \* the latest process_one_file call and how it ended

batch_vars == <<lst, obj_batch_size, batches, prev_call>>

state_vars == <<use_dask, dask_var, local_state, cell, cluster_up, last_call,
                ncalls, init_called, init_ok>>

disp_vars == <<result, config, intermediate_map, bucket_runs, gen, yielded,
               disk, disp_call>>

thread_vars == <<th>>

text_vars == <<txt_files, txt_samples, txt_call>>

vars == <<batch_vars, state_vars, disp_vars, thread_vars, text_vars>>

(***************************************************************************)
(* File descriptors.  get_file_len is the processor's cost function; the   *)
(* cost of a descriptor is carried by the descriptor.                      *)
(***************************************************************************)
FilePaths == {"a", "b"}

BatchObjs == [file_path : FilePaths, file_extension : {".txt"}, len : UNSIZED..MaxCost]

get_file_len(obj) == obj.len

RECURSIVE SeqSum(_)
SeqSum(s) == IF s = <<>> THEN 0 ELSE Head(s) + SeqSum(Tail(s))

(***************************************************************************)
(* batch_list, lines 216-220: the (object, size) pairs, the UNSIZED ones   *)
(* dropped, sorted by size descending.  list.sort is stable, also with     *)
(* reverse=True: equal sizes keep their order.                             *)
(***************************************************************************)
\* a truthiness test of the size instead of the comparison with -1
IsSizedTruthy(item) == item[2] > 0

IsSized(item) == item[2] # UNSIZED

SizedItems(l) ==
    SelectSeq([i \in 1..Len(l) |-> <<l[i], get_file_len(l[i])>>], IsSized)

\* an item put before the items of its own size: equal sizes end reversed
RECURSIVE InsertDescUnstable(_, _)
InsertDescUnstable(sorted, item) ==
    IF sorted = <<>> THEN <<item>>
    ELSE IF Head(sorted)[2] > item[2]
         THEN <<Head(sorted)>> \o InsertDescUnstable(Tail(sorted), item)
         ELSE <<item>> \o sorted

\* insert item after every element whose size is >= its own
RECURSIVE InsertDesc(_, _)
InsertDesc(sorted, item) ==
    IF sorted = <<>> THEN <<item>>
    ELSE IF Head(sorted)[2] >= item[2]
         THEN <<Head(sorted)>> \o InsertDesc(Tail(sorted), item)
         ELSE <<item>> \o sorted

RECURSIVE SortDesc(_)
SortDesc(items) ==
    IF items = <<>> THEN <<>>
    ELSE InsertDesc(SortDesc(SubSeq(items, 1, Len(items) - 1)), items[Len(items)])

(***************************************************************************)
(* batch_list, lines 226-234: the scan for the best fitting batch.         *)
(***************************************************************************)
\* min_remaining initialised from the item instead of the capacity
InitMinRemainingFromSize(size, C) == size

InitMinRemaining(size, C) == C

\* the lower bound of the chained comparison forgotten
FitsNoLowerBound(remaining, min_remaining) == remaining < min_remaining

\* an exact fit refused
FitsStrict(remaining, min_remaining) == 0 < remaining /\ remaining < min_remaining

Fits(remaining, min_remaining) == 0 <= remaining /\ remaining < min_remaining

RECURSIVE Scan(_, _, _, _, _, _)
Scan(batch_sizes, size, C, i, best_fit_idx, min_remaining) ==
    IF i > Len(batch_sizes) THEN best_fit_idx
    ELSE LET remaining == C - (batch_sizes[i] + size)
         IN  IF Fits(remaining, min_remaining)
             THEN Scan(batch_sizes, size, C, i + 1, i, remaining)
             ELSE Scan(batch_sizes, size, C, i + 1, best_fit_idx, min_remaining)

\* 0 stands for Python's best_fit_idx = -1 (indices are 1-based here)
BestFitIdx(batch_sizes, size, C) ==
    Scan(batch_sizes, size, C, 1, 0, InitMinRemaining(size, C))

(***************************************************************************)
(* batch_list, lines 236-241: append to the best fit, or open a batch.     *)
(***************************************************************************)
Place(st, item, C) ==
    LET best_fit_idx == BestFitIdx(st.batch_sizes, item[2], C)
    IN  IF best_fit_idx >= 1
        THEN [batches     |-> [st.batches EXCEPT ![best_fit_idx] = Append(@, item[1])],
              batch_sizes |-> [st.batch_sizes EXCEPT ![best_fit_idx] = @ + item[2]]]
        ELSE [batches     |-> Append(st.batches, <<item[1]>>),
              batch_sizes |-> Append(st.batch_sizes, item[2])]

RECURSIVE PlaceAll(_, _, _)
PlaceAll(st, items, C) ==
    IF items = <<>> THEN st
    ELSE PlaceAll(Place(st, Head(items), C), Tail(items), C)

\* lines 222-223: batches = [[]], batch_sizes = [0]
batch_list(l, C) ==
    PlaceAll([batches |-> << <<>> >>, batch_sizes |-> <<0>>],
             SortDesc(SizedItems(l)), C).batches

(***************************************************************************)
(* The buckets and capacities batch_list is exercised on: every bucket of  *)
(* at most MaxLen descriptors and every capacity up to MaxCap, and two     *)
(* larger scenarios.                                                       *)
(***************************************************************************)
Obj(p, n) == [file_path |-> p, file_extension |-> ".txt", len |-> n]

SmallBuckets == UNION {[1..n -> BatchObjs] : n \in 0..MaxLen}

ScenarioBucket == <<Obj("A", 90), Obj("B", 60), Obj("C", 40), Obj("D", 30)>>

SteppedBucket ==
    <<Obj("p", 14), Obj("q", 14), Obj("r", 8), Obj("s", 8), Obj("t", 8),
      Obj("u", 8), Obj("v", 6), Obj("w", 5), Obj("x", 5), Obj("y", 5)>>

Buckets == SmallBuckets \cup {ScenarioBucket, SteppedBucket}

Capacities == (1..MaxCap) \cup {27, 28, DefaultBatchSize}

BatchInit ==
    /\ lst \in Buckets
    /\ obj_batch_size = None
    /\ batches = None
    /\ prev_call = None

BatchListCall ==
    \E C \in Capacities :
        /\ prev_call' = IF obj_batch_size = None THEN None
                        ELSE <<obj_batch_size[1], Len(batches)>>
        /\ obj_batch_size' = Some(C)
        /\ batches' = batch_list(lst, C)
        /\ UNCHANGED lst

BatchIdle ==
    /\ lst = <<>>
    /\ obj_batch_size = None
    /\ batches = None
    /\ prev_call = None

(***************************************************************************)
(* ExecutionState.  The class attributes start as lines 15-17 set them.    *)
(***************************************************************************)
StateInit ==
    /\ use_dask = None
    /\ dask_var = None
    /\ local_state = FALSE
    /\ cell = None
    /\ cluster_up = TRUE
    /\ last_call = [op |-> "none", arg |-> None, outcome |-> "none",
                    value |-> None, read_failed |-> FALSE]
    /\ ncalls = 0
    /\ init_called = FALSE
    /\ init_ok = FALSE

Call(op, arg, outcome, value, read_failed) ==
    /\ ncalls < MaxCalls
    /\ ncalls' = ncalls + 1
    /\ last_call' = [op |-> op, arg |-> arg, outcome |-> outcome,
                     value |-> value, read_failed |-> read_failed]

\* a truthiness test instead of the comparison with None
already_initialized_truthy(u) == u = Some(TRUE)

\* line 26
already_initialized(u) == u # None

\* initialize(distributed_mode, client), lines 26-38.  distributed_mode is
\* None, Some(TRUE) or Some(FALSE); client is None or Some("client").
\* Variable(...) and .set(False) reach the scheduler: with the connection
\* down either of them raises.
initialize(distributed_mode, client) ==
    /\ init_called' = TRUE
    /\ UNCHANGED cluster_up
    /\ IF already_initialized(use_dask)
       THEN /\ Call("initialize", distributed_mode, "AlreadyInitialized", None, FALSE)
            /\ UNCHANGED <<use_dask, dask_var, local_state, cell, init_ok>>
       ELSE IF distributed_mode = None
       THEN /\ Call("initialize", distributed_mode, "AssertionError", None, FALSE)
            /\ UNCHANGED <<use_dask, dask_var, local_state, cell, init_ok>>
       ELSE /\ use_dask' = distributed_mode
            /\ IF distributed_mode = Some(TRUE)
               THEN IF client = None
                    THEN /\ Call("initialize", distributed_mode, "AssertionError",
                                 None, FALSE)
                         /\ UNCHANGED <<dask_var, local_state, cell, init_ok>>
                    ELSE IF cluster_up
                    THEN /\ dask_var' = Some("should_stop_execution")
                         /\ cell' = Some(FALSE)
                         /\ init_ok' = TRUE
                         /\ Call("initialize", distributed_mode, "return", None, FALSE)
                         /\ UNCHANGED local_state
                    ELSE /\ \E constructed \in BOOLEAN :
                                dask_var' = IF constructed
                                            THEN Some("should_stop_execution")
                                            ELSE dask_var
                         /\ Call("initialize", distributed_mode, "ClusterError",
                                 None, FALSE)
                         /\ UNCHANGED <<local_state, cell, init_ok>>
               ELSE /\ local_state' = FALSE
                    /\ init_ok' = TRUE
                    /\ Call("initialize", distributed_mode, "return", None, FALSE)
                    /\ UNCHANGED <<dask_var, cell>>

Initialize ==
    \E distributed_mode \in {None, Some(TRUE), Some(FALSE)},
       client \in {None, Some("client")} :
        initialize(distributed_mode, client)

\* line 43
get_not_initialized(u) == u = None

\* the read of line 47 failed: the handler of lines 48-50 re-raises
on_read_failure_raise == [outcome |-> "ClusterError", value |-> None]

\* lines 48-50: the failure is printed and True returned
on_read_failure == [outcome |-> "return", value |-> Some(TRUE)]

\* ExecutionState._dask_var.get(), line 47: fails without a Variable (the
\* attribute is None) and with the connection down
read_fails == dask_var = None \/ ~cluster_up

\* get_should_stop_execution(), lines 43-52.  The read of a Variable that
\* was never set waits for a value: that call does not return.
get_should_stop_execution ==
    /\ UNCHANGED <<use_dask, dask_var, local_state, cell, cluster_up,
                   init_called, init_ok>>
    /\ IF get_not_initialized(use_dask)
       THEN Call("get", None, "NotInitialized", None, FALSE)
       ELSE IF use_dask = Some(TRUE)
       THEN IF read_fails
            THEN Call("get", None, on_read_failure.outcome,
                      on_read_failure.value, TRUE)
            ELSE /\ cell # None
                 /\ Call("get", None, "return", cell, FALSE)
       ELSE Call("get", None, "return", Some(local_state), FALSE)

\* the check of lines 58-59 left out
set_not_initialized_unchecked(u) == FALSE

\* line 58
set_not_initialized(u) == u = None

\* a stop request that can be raised but not withdrawn
local_write_sticky(old, value) == old \/ value

\* line 63: ExecutionState._local_state = value
local_write(old, value) == value

\* set_should_stop_execution(value), lines 57-64
set_should_stop_execution(value) ==
    /\ UNCHANGED <<use_dask, dask_var, cluster_up, init_called, init_ok>>
    /\ IF set_not_initialized(use_dask)
       THEN /\ Call("set", Some(value), "NotInitialized", None, FALSE)
            /\ UNCHANGED <<local_state, cell>>
       ELSE IF use_dask = Some(TRUE)
       THEN IF dask_var = None
            THEN /\ Call("set", Some(value), "AttributeError", None, FALSE)
                 /\ UNCHANGED <<local_state, cell>>
            ELSE IF ~cluster_up
            THEN /\ Call("set", Some(value), "ClusterError", None, FALSE)
                 /\ UNCHANGED <<local_state, cell>>
            ELSE /\ cell' = Some(value)
                 /\ Call("set", Some(value), "return", None, FALSE)
                 /\ UNCHANGED local_state
       ELSE /\ local_state' = local_write(local_state, value)
            /\ Call("set", Some(value), "return", None, FALSE)
            /\ UNCHANGED cell

SetShouldStop == \E value \in BOOLEAN : set_should_stop_execution(value)

\* the environment: the scheduler connection is lost, or comes back
ClusterToggle ==
    /\ cluster_up' = ~cluster_up
    /\ UNCHANGED <<use_dask, dask_var, local_state, cell, last_call, ncalls,
                   init_called, init_ok>>

(***************************************************************************)
(* initialize run by concurrent threads.  The method takes no lock, so a   *)
(* thread can be preempted between any two accesses of the class           *)
(* attributes: after the test of line 26, after the assignment of line 29, *)
(* and between the two cluster operations of lines 33 and 34.              *)
(***************************************************************************)
Threads == 1..MaxThreads

Frame(pc, distributed_mode, client, outcome) ==
    [pc |-> pc, distributed_mode |-> distributed_mode, client |-> client,
     outcome |-> outcome]

ThreadIdle == th = [t \in Threads |-> Frame("idle", None, None, "none")]

\* the thread's frame moves on, its arguments stay
Goto(t, pc, outcome) ==
    th' = [th EXCEPT ![t] = Frame(pc, @.distributed_mode, @.client, outcome)]

\* lines 26-28: the call starts and reads _use_dask
InitCheck(t) ==
    /\ th[t].pc = "idle"
    /\ \E distributed_mode \in {Some(TRUE), Some(FALSE)},
          client \in {None, Some("client")} :
           th' = [th EXCEPT ![t] =
                     IF already_initialized(use_dask)
                     THEN Frame("done", distributed_mode, client, "AlreadyInitialized")
                     ELSE Frame("line29", distributed_mode, client, "none")]
    /\ init_called' = TRUE
    /\ UNCHANGED <<use_dask, dask_var, local_state, cell, cluster_up, last_call,
                   ncalls, init_ok>>

\* lines 29-32: _use_dask is assigned, then the client is asserted
InitAssign(t) ==
    /\ th[t].pc = "line29"
    /\ use_dask' = th[t].distributed_mode
    /\ IF th[t].distributed_mode = Some(TRUE)
       THEN IF th[t].client = None
            THEN Goto(t, "done", "AssertionError")
            ELSE Goto(t, "line33", "none")
       ELSE Goto(t, "line37", "none")
    /\ UNCHANGED <<dask_var, local_state, cell, cluster_up, last_call, ncalls,
                   init_called, init_ok>>

\* line 33: the Variable is created and assigned to _dask_var
InitCreateVariable(t) ==
    /\ th[t].pc = "line33"
    /\ dask_var' = Some("should_stop_execution")
    /\ Goto(t, "line34", "none")
    /\ UNCHANGED <<use_dask, local_state, cell, cluster_up, last_call, ncalls,
                   init_called, init_ok>>

\* line 34: the Variable is set to False, and the call returns
InitSetVariable(t) ==
    /\ th[t].pc = "line34"
    /\ cell' = Some(FALSE)
    /\ init_ok' = TRUE
    /\ Goto(t, "done", "return")
    /\ UNCHANGED <<use_dask, dask_var, local_state, cluster_up, last_call,
                   ncalls, init_called>>

\* line 37: _local_state is set to False, and the call returns
InitLocal(t) ==
    /\ th[t].pc = "line37"
    /\ local_state' = FALSE
    /\ init_ok' = TRUE
    /\ Goto(t, "done", "return")
    /\ UNCHANGED <<use_dask, dask_var, cell, cluster_up, last_call, ncalls,
                   init_called>>

(***************************************************************************)
(* TextProcessor.process_one_file, lines 54-66.  What open() and read() do *)
(* with a file is carried by the file: it is read, it is missing, it may   *)
(* not be read, its bytes are not UTF-8, or it is a directory.             *)
(***************************************************************************)
Texts == {"", "x", " x "}

TextFilePaths == {"a.txt", "b.txt"}

Conditions == {"readable", "missing", "denied", "not_utf8", "directory"}

TextFiles ==
    [file_path : TextFilePaths, condition : {"readable"}, text : Texts]
    \cup [file_path : TextFilePaths, condition : Conditions \ {"readable"},
          text : {""}]

\* lines 55-57: None when the text was read, or the exception raised
read_error(file) ==
    CASE file.condition = "readable" -> None
      [] file.condition = "missing" -> Some("FileNotFoundError")
      [] file.condition = "denied" -> Some("PermissionError")
      [] file.condition = "not_utf8" -> Some("UnicodeDecodeError")
      [] file.condition = "directory" -> Some("IsADirectoryError")

\* only the handler of lines 58-60
caught_read_only(exception) ==
    exception \in {"FileNotFoundError", "PermissionError"}

\* the handlers of lines 58 and 61
caught(exception) ==
    exception \in {"FileNotFoundError", "PermissionError", "UnicodeDecodeError"}

\* clean_text of process/utils: surrounding whitespace is removed
clean_text(text) == IF text = " x " THEN "x" ELSE text

\* Processor.create_sample(texts, images, file_path)
create_sample(texts, images, file_path) ==
    [text |-> texts, modalities |-> images, metadata |-> [file_path |-> file_path]]

\* lines 54-66: the sample returned, or the exception that leaves the method
process_one_file(file) ==
    LET error == read_error(file)
    IN  IF error # None
        THEN IF caught(error[1])
             THEN [outcome |-> "return",
                   sample |-> Some(create_sample(<<>>, <<>>, file.file_path))]
             ELSE [outcome |-> error[1], sample |-> None]
        ELSE [outcome |-> "return",
              sample |-> Some(create_sample(<<clean_text(file.text)>>, <<>>,
                                            file.file_path))]

TextInit ==
    /\ txt_files \in UNION {[1..n -> TextFiles] : n \in 0..MaxBatch}
    /\ txt_samples = <<>>
    /\ txt_call = [file |-> None, outcome |-> "none"]

TextIdle ==
    /\ txt_files = <<>>
    /\ txt_samples = <<>>
    /\ txt_call = [file |-> None, outcome |-> "none"]

\* the processor goes through its batch in order and calls process_one_file
\* on the next file; an exception that leaves the method ends the batch
ProcessNextFile ==
    /\ txt_call.outcome \in {"none", "return"}
    /\ Len(txt_samples) < Len(txt_files)
    /\ LET file == txt_files[Len(txt_samples) + 1]
           got == process_one_file(file)
       IN  /\ txt_call' = [file |-> Some(file), outcome |-> got.outcome]
           /\ txt_samples' = IF got.sample = None THEN txt_samples
                             ELSE Append(txt_samples, got.sample[1])
    /\ UNCHANGED txt_files

(***************************************************************************)
(* The processor registry.  ProcessorRegistry.get_processors() lists the   *)
(* registered types in registration order; AutoProcessor.from_file returns *)
(* the first whose accepts() takes the file, and fails when none does.     *)
(***************************************************************************)
Processors == <<"TextProcessor", "PDFProcessor", "URLProcessor">>

ProcessorSet == {Processors[i] : i \in 1..Len(Processors)}

Lower(ext) == IF ext = ".TXT" THEN ".txt" ELSE ext

\* TextProcessor.accepts: file.file_extension.lower() in [".txt"]
text_accepts(file) == Lower(file.file_extension) \in {".txt"}

accepts(processor, file) ==
    CASE processor = "TextProcessor" -> text_accepts(file)
      [] processor = "PDFProcessor"  -> Lower(file.file_extension) \in {".pdf"}
      [] OTHER                       -> FALSE

RECURSIVE FirstAccepting(_, _)
FirstAccepting(i, file) ==
    IF i > Len(Processors) THEN None
    ELSE IF accepts(Processors[i], file) THEN Some(Processors[i])
    ELSE FirstAccepting(i + 1, file)

from_file(file) == FirstAccepting(1, file)

(***************************************************************************)
(* Dispatcher._bucket_files, lines 160-173.                                *)
(***************************************************************************)
RECURSIVE Flatten(_)
Flatten(ss) == IF ss = <<>> THEN <<>> ELSE Head(ss) \o Flatten(Tail(ss))

EmptyMap == [p \in ProcessorSet |-> <<>>]

\* the lists of the map of the run before kept and appended to
processor_map_reused(old_map) == IF old_map = <<>> THEN EmptyMap ELSE old_map

\* lines 160-162: a new map with a new empty list per registered processor,
\* whatever self.intermediate_map holds
processor_map_start(old_map) == EmptyMap

\* each file put at the front of its bucket
RECURSIVE RouteAllPrepend(_, _)
RouteAllPrepend(processor_map, files) ==
    IF files = <<>> THEN Some(processor_map)
    ELSE LET processor == from_file(Head(files))
         IN  IF processor = None THEN None
             ELSE RouteAllPrepend([processor_map EXCEPT ![processor[1]] =
                                       <<Head(files)>> \o @],
                                  Tail(files))

\* lines 164-168; None when from_file finds no processor for a file (the
\* lookup of line 168 raises)
RECURSIVE RouteAll(_, _)
RouteAll(processor_map, files) ==
    IF files = <<>> THEN Some(processor_map)
    ELSE LET processor == from_file(Head(files))
         IN  IF processor = None THEN None
             ELSE RouteAll([processor_map EXCEPT ![processor[1]] =
                                Append(@, Head(files))],
                           Tail(files))

\* the URL collection appended as one element instead of extended
bucket_files_append(res, old_map) ==
    LET routed == RouteAll(processor_map_start(old_map), Flatten(res.file_paths))
    IN  IF routed = None THEN None
        ELSE Some([routed[1] EXCEPT !["URLProcessor"] = Append(@, res.urls)])

\* the map line 173 assigns, None when the method raises before
bucket_files(res, old_map) ==
    LET routed == RouteAll(processor_map_start(old_map), Flatten(res.file_paths))
    IN  IF routed = None THEN None
        ELSE Some([routed[1] EXCEPT !["URLProcessor"] = @ \o res.urls])

(***************************************************************************)
(* Dispatcher.dispatch, lines 245-265.                                     *)
(***************************************************************************)
\* A configuration list holds one-key dicts, <<key, value>> here.  <<>> is
\* an entry without a key (an empty dict): list(d.keys())[0] raises on it.
RECURSIVE malformed(_)
malformed(entries) ==
    IF entries = <<>> THEN FALSE
    ELSE Head(entries) = <<>> \/ malformed(Tail(entries))

\* line 247: self.config.process_batch_sizes or {}
batch_size_entries(cfg) ==
    IF cfg.process_batch_sizes = None THEN <<>> ELSE cfg.process_batch_sizes[1]

\* line 247-248: the list of one-key dicts as one dict, a later entry for
\* the same processor replacing an earlier one; line 255: default 100
RECURSIVE batch_size_of(_, _, _)
batch_size_of(sizes, name, found) ==
    IF sizes = <<>> THEN found
    ELSE batch_size_of(Tail(sizes), name,
                       IF Head(sizes)[1] = name THEN Head(sizes)[2] ELSE found)

capacity(cfg, name) ==
    cfg.batch_multiplier *
        batch_size_of(batch_size_entries(cfg), name, DefaultBatchSize)

\* the test of line 252 left out
has_files_unchecked(file_list) == TRUE

\* line 252
has_files(file_list) == Len(file_list) > 0

Tasks(processor, batched_files) ==
    [k \in 1..Len(batched_files) |-> <<processor, batched_files[k]>>]

\* lines 250-258, over the map in its insertion order
RECURSIVE build_task_lists(_, _, _)
build_task_lists(map, cfg, i) ==
    IF i > Len(Processors) THEN <<>>
    ELSE LET processor == Processors[i]
             file_list == map[processor]
         IN  (IF has_files(file_list)
              THEN Tasks(processor,
                         batch_list(file_list, capacity(cfg, processor)))
              ELSE <<>>)
             \o build_task_lists(map, cfg, i + 1)

\* A generator of _dispatch_local: the task list it was called with, the
\* number of results it has yielded (pos), and two counters: the next()
\* calls made on it and the processor invocations of line 193.
NoGen == [status |-> "none", task_lists |-> <<>>, pos |-> 0,
          requests |-> 0, invoked |-> 0]

\* the tasks run while dispatch() builds a list of results
new_generator_eager(task_lists) ==
    [status |-> "suspended", task_lists |-> task_lists, pos |-> 0,
     requests |-> 0, invoked |-> Len(task_lists)]

\* line 263: calling the generator function runs none of its body
new_generator(task_lists) ==
    [status |-> "created", task_lists |-> task_lists, pos |-> 0,
     requests |-> 0, invoked |-> 0]

DispCall(op, outcome) == disp_call' = [op |-> op, outcome |-> outcome]

\* a direct call of _bucket_files
BucketFiles ==
    /\ bucket_runs < MaxRuns
    /\ LET map == bucket_files(result, intermediate_map)
       IN  IF map = None
           THEN /\ DispCall("_bucket_files", "NoProcessorFound")
                /\ UNCHANGED <<intermediate_map, bucket_runs>>
           ELSE /\ intermediate_map' = map[1]
                /\ bucket_runs' = bucket_runs + 1
                /\ DispCall("_bucket_files", "return")
    /\ UNCHANGED <<result, config, gen, yielded, disk>>

\* dispatch(): _bucket_files, the batch sizes (line 248 raises on an entry
\* without a key), the task list, and the mode's dispatch.  The class
\* defines no _dispatch_distributed: line 261 raises AttributeError.
\* _dispatch_local is a generator function: line 263 runs none of its body.
\* config.scheduler_file is read nowhere.
Dispatch ==
    /\ bucket_runs < MaxRuns
    /\ LET map == bucket_files(result, intermediate_map)
       IN  IF map = None
           THEN /\ DispCall("dispatch", "NoProcessorFound")
                /\ UNCHANGED <<intermediate_map, bucket_runs, gen, yielded>>
           ELSE /\ intermediate_map' = map[1]
                /\ bucket_runs' = bucket_runs + 1
                /\ IF malformed(batch_size_entries(config))
                   THEN /\ DispCall("dispatch", "ConfigError")
                        /\ UNCHANGED <<gen, yielded>>
                   ELSE IF config.distributed
                   THEN /\ DispCall("dispatch", "AttributeError")
                        /\ UNCHANGED <<gen, yielded>>
                   ELSE /\ gen' = new_generator(build_task_lists(map[1], config, 1))
                        /\ yielded' = <<>>
                        /\ DispCall("dispatch", "return")
    /\ UNCHANGED <<result, config, disk>>

(***************************************************************************)
(* save_individual_processor_results, lines 270-279.  to_jsonl appends the *)
(* samples to the file, creating it when it is not there.                  *)
(***************************************************************************)
\* the early return of lines 271-272 left out
save_results_always(d, cfg, results, cls_name) ==
    [d EXCEPT ![cls_name] = Some((IF @ = None THEN <<>> ELSE @[1]) \o results)]

save_individual_processor_results(d, cfg, results, cls_name) ==
    IF cfg.output_path = None THEN d
    ELSE [d EXCEPT ![cls_name] = Some((IF @ = None THEN <<>> ELSE @[1]) \o results)]

(***************************************************************************)
(* One next() on the generator of _dispatch_local, lines 181-195: the body *)
(* runs up to the next yield.  Lines 184-185 read the override of the      *)
(* task's processor type and raise on an entry without a key.  The         *)
(* processor returns one sample per file, or raises; nothing in the body   *)
(* catches an exception, so it ends the generator and reaches the caller.  *)
(***************************************************************************)
\* line 181 and 184: (self.config.processor_config or {}).get(name, [])
override_entries(cfg, name) ==
    IF cfg.processor_config = None THEN <<>>
    ELSE IF name \in DOMAIN cfg.processor_config[1]
         THEN cfg.processor_config[1][name]
         ELSE <<>>

\* line 183: the loop is over, or the generator has ended before
exhausted(g) == g.status = "finished" \/ g.pos >= Len(g.task_lists)

\* the result of a task: one sample per file of the batch
processor_result(task) == task[2]

GenNext ==
    /\ gen.status # "none"
    /\ gen.requests <= Len(gen.task_lists) + MaxSpare
    /\ IF exhausted(gen)
       THEN /\ gen' = [gen EXCEPT !.status = "finished", !.requests = @ + 1]
            /\ DispCall("next", "StopIteration")
            /\ UNCHANGED <<yielded, disk>>
       ELSE LET task == gen.task_lists[gen.pos + 1]
                res  == processor_result(task)
            IN  IF malformed(override_entries(config, task[1]))
                THEN /\ gen' = [gen EXCEPT !.status = "finished",
                                           !.requests = @ + 1]
                     /\ DispCall("next", "ConfigError")
                     /\ UNCHANGED <<yielded, disk>>
                ELSE \/ /\ disk' = save_individual_processor_results(
                                        disk, config, res, task[1])
                        /\ yielded' = Append(yielded, res)
                        /\ gen' = [gen EXCEPT !.status = "suspended",
                                              !.pos = @ + 1,
                                              !.requests = @ + 1,
                                              !.invoked = @ + 1]
                        /\ DispCall("next", "yield")
                     \/ /\ gen' = [gen EXCEPT !.status = "finished",
                                              !.requests = @ + 1,
                                              !.invoked = @ + 1]
                        /\ DispCall("next", "ProcessorError")
                        /\ UNCHANGED <<yielded, disk>>
    /\ UNCHANGED <<result, config, intermediate_map, bucket_runs>>

(***************************************************************************)
(* The crawl results and configurations the dispatcher is run on.          *)
(***************************************************************************)
File(p, e, n) == [file_path |-> p, file_extension |-> e, len |-> n]

DispFiles ==
    {File("a", ".txt", 1), File("b", ".TXT", 2), File("c", ".txt", UNSIZED),
     File("d", ".pdf", 3), File("e", ".xyz", 1)}

Urls == <<File("http://u", "", 1), File("http://v", "", 1)>>

FileLists == UNION {[1..n -> DispFiles] : n \in 0..MaxFiles}

\* file_paths.values(): the files in two lists, cut at k
Split(fs, k) ==
    <<[i \in 1..k |-> fs[i]], [i \in 1..(Len(fs) - k) |-> fs[k + i]]>>

Results ==
    UNION {{[file_paths |-> Split(fs, k), urls |-> us] :
                k \in 0..Len(fs), us \in {<<>>, Urls}} : fs \in FileLists}

Configs ==
    [distributed : BOOLEAN, output_path : {None, Some("out")},
     process_batch_sizes : {None, Some(<< <<"TextProcessor", 2>> >>),
                            Some(<< <<>> >>)},
     processor_config : {None,
                         Some([PDFProcessor |-> << <<>> >>,
                               TextProcessor |-> << <<"k", "v">> >>])},
     batch_multiplier : {1}]

DispInit ==
    /\ result \in Results
    /\ config \in Configs
    /\ intermediate_map = <<>>
    /\ bucket_runs = 0
    /\ gen = NoGen
    /\ yielded = <<>>
    /\ disk = [p \in ProcessorSet |-> None]
    /\ disp_call = [op |-> "none", outcome |-> "none"]

DispIdle ==
    /\ result = [file_paths |-> <<>>, urls |-> <<>>]
    /\ config = [distributed |-> FALSE, output_path |-> None,
                 process_batch_sizes |-> None, processor_config |-> None,
                 batch_multiplier |-> 1]
    /\ intermediate_map = <<>>
    /\ bucket_runs = 0
    /\ gen = NoGen
    /\ yielded = <<>>
    /\ disk = [p \in ProcessorSet |-> None]
    /\ disp_call = [op |-> "none", outcome |-> "none"]

(***************************************************************************)
(* The specifications.                                                     *)
(***************************************************************************)
BatchNext ==
    BatchListCall /\ UNCHANGED <<state_vars, disp_vars, thread_vars, text_vars>>

InitBatch == BatchInit /\ StateInit /\ DispIdle /\ ThreadIdle /\ TextIdle

SpecBatch == InitBatch /\ [][BatchNext]_vars

StateNext ==
    \/ Initialize /\ UNCHANGED <<batch_vars, disp_vars, thread_vars, text_vars>>
    \/ get_should_stop_execution /\ UNCHANGED <<batch_vars, disp_vars, thread_vars, text_vars>>
    \/ SetShouldStop /\ UNCHANGED <<batch_vars, disp_vars, thread_vars, text_vars>>
    \/ ClusterToggle /\ UNCHANGED <<batch_vars, disp_vars, thread_vars, text_vars>>

InitState == BatchIdle /\ StateInit /\ DispIdle /\ ThreadIdle /\ TextIdle

SpecState == InitState /\ [][StateNext]_vars

DispNext ==
    \/ BucketFiles /\ UNCHANGED <<batch_vars, state_vars, thread_vars, text_vars>>
    \/ Dispatch /\ UNCHANGED <<batch_vars, state_vars, thread_vars, text_vars>>
    \/ GenNext /\ UNCHANGED <<batch_vars, state_vars, thread_vars, text_vars>>

InitDisp == BatchIdle /\ StateInit /\ DispInit /\ ThreadIdle /\ TextIdle

SpecDisp == InitDisp /\ [][DispNext]_vars

\* threads in initialize, and a caller that sets and gets should_stop
ThreadsNext ==
    \/ (\E t \in Threads : InitCheck(t))
          /\ UNCHANGED <<batch_vars, disp_vars, text_vars>>
    \/ (\E t \in Threads : InitAssign(t))
          /\ UNCHANGED <<batch_vars, disp_vars, text_vars>>
    \/ (\E t \in Threads : InitCreateVariable(t))
          /\ UNCHANGED <<batch_vars, disp_vars, text_vars>>
    \/ (\E t \in Threads : InitSetVariable(t))
          /\ UNCHANGED <<batch_vars, disp_vars, text_vars>>
    \/ (\E t \in Threads : InitLocal(t))
          /\ UNCHANGED <<batch_vars, disp_vars, text_vars>>
    \/ get_should_stop_execution
          /\ UNCHANGED <<batch_vars, disp_vars, thread_vars, text_vars>>
    \/ SetShouldStop
          /\ UNCHANGED <<batch_vars, disp_vars, thread_vars, text_vars>>

InitThreads == BatchIdle /\ StateInit /\ DispIdle /\ ThreadIdle /\ TextIdle

SpecThreads == InitThreads /\ [][ThreadsNext]_vars

TextNext ==
    ProcessNextFile /\ UNCHANGED <<batch_vars, state_vars, disp_vars, thread_vars>>

InitText == BatchIdle /\ StateInit /\ DispIdle /\ ThreadIdle /\ TextInit

SpecText == InitText /\ [][TextNext]_vars

(***************************************************************************)
(* Properties of batch_list.                                               *)
(***************************************************************************)
Called == obj_batch_size # None

Cap == obj_batch_size[1]

BatchCost(b) == SeqSum([i \in 1..Len(b) |-> get_file_len(b[i])])

Count(s, x) == Cardinality({i \in 1..Len(s) : s[i] = x})

Range(s) == {s[i] : i \in 1..Len(s)}

TotalCost(l) == SeqSum([i \in 1..Len(SizedItems(l)) |-> SizedItems(l)[i][2]])

\* C1: every batch batch_list returns has aggregate cost <= C, except a
\* batch of exactly one item whose own cost exceeds C.
C1_BatchWithinCapacity ==
    Called =>
        \A k \in 1..Len(batches) :
            \/ BatchCost(batches[k]) <= Cap
            \/ Len(batches[k]) = 1 /\ get_file_len(batches[k][1]) > Cap

\* an over-capacity item alone in its batch beside a batch of two items
C1_Witness ==
    /\ Called
    /\ \E k \in 1..Len(batches) :
           Len(batches[k]) = 1 /\ get_file_len(batches[k][1]) > Cap
    /\ \E k \in 1..Len(batches) :
           Len(batches[k]) = 2 /\ BatchCost(batches[k]) = Cap

\* C2: the batches hold every sized item of the bucket exactly as often as
\* the bucket does, and no unsized item at all.
C2_SizedItemsPreserved ==
    Called =>
        \A o \in Range(lst) \cup Range(Flatten(batches)) :
            Count(Flatten(batches), o) =
                IF get_file_len(o) = UNSIZED THEN 0 ELSE Count(lst, o)

\* a batched bucket with an unsized item and a sized item that occurs twice
C2_Witness ==
    /\ Called
    /\ \E o \in Range(lst) : get_file_len(o) = UNSIZED
    /\ \E o \in Range(lst) : get_file_len(o) > 0 /\ Count(lst, o) = 2
    /\ Len(batches) >= 2

\* C7 as stated: for capacities C1 <= C2 the call with C2 returns no more
\* batches than the call with C1.
C7_CountMonotone ==
    (Called /\ prev_call # None /\ prev_call[1] <= Cap)
        => Len(batches) <= prev_call[2]

\* C7 amended: the same, for a capacity C2 that is at least the summed cost
\* of the bucket's sized items.
C7_CountMonotoneAboveTotal ==
    (Called /\ prev_call # None /\ prev_call[1] <= Cap /\ Cap >= TotalCost(lst))
        => Len(batches) <= prev_call[2]

\* a call with more capacity, enough for the whole bucket, that returned
\* fewer batches than the call before
C7_Witness ==
    /\ Called /\ prev_call # None
    /\ prev_call[1] < Cap /\ Cap >= TotalCost(lst)
    /\ TotalCost(lst) > 0
    /\ Len(batches) < prev_call[2]

\* C8: the bucket [A:90, B:60, C:40, D:30] with capacity 100 is batched
\* into [A], [B, C], [D]: three batches, no item lost, none above 100.
C8_Scenario ==
    (Called /\ lst = ScenarioBucket /\ Cap = 100) =>
        /\ batches = << <<Obj("A", 90)>>, <<Obj("B", 60), Obj("C", 40)>>,
                        <<Obj("D", 30)>> >>
        /\ <<BatchCost(batches[1]), BatchCost(batches[2]), BatchCost(batches[3])>>
               = <<90, 100, 30>>

C8_Witness == Called /\ lst = ScenarioBucket /\ Cap = 100 /\ Len(batches) = 3

(***************************************************************************)
(* Properties of ExecutionState.                                           *)
(***************************************************************************)
StateCall(op) == ncalls' = ncalls + 1 /\ last_call'.op = op

\* C3: once an initialize call has succeeded, every later initialize call
\* (either mode) fails with the already-initialized error and leaves the
\* backend selection and the should_stop value as they were.
C3_SecondInitializeFails ==
    [][(init_ok /\ StateCall("initialize")) =>
          /\ last_call'.outcome = "AlreadyInitialized"
          /\ UNCHANGED <<use_dask, dask_var, local_state, cell>>]_vars

\* a stop request made after the initialization has survived a second
\* initialize, which failed
C3_Witness ==
    /\ init_ok /\ use_dask = Some(FALSE) /\ local_state = TRUE
    /\ last_call.op = "initialize" /\ last_call.arg = Some(FALSE)
    /\ last_call.outcome = "AlreadyInitialized"

\* C4: before any initialize call, get_should_stop_execution and
\* set_should_stop_execution fail with the not-initialized error and the
\* state stays uninitialized, its stored value unchanged.
C4_NotInitialized ==
    [][(~init_called /\ (StateCall("get") \/ StateCall("set"))) =>
          /\ last_call'.outcome = "NotInitialized"
          /\ use_dask' = None
          /\ UNCHANGED <<use_dask, dask_var, local_state, cell>>]_vars

\* a set(True) refused before any initialize
C4_Witness ==
    /\ ~init_called /\ ncalls >= 2
    /\ last_call.op = "set" /\ last_call.arg = Some(TRUE)
    /\ last_call.outcome = "NotInitialized"
    /\ local_state = FALSE

\* C5: with the cluster backend initialized, a get_should_stop_execution
\* whose read of the shared cell fails returns true and does not raise.
C5_ReadFailureStops ==
    (use_dask = Some(TRUE) /\ last_call.op = "get" /\ last_call.read_failed) =>
        /\ last_call.outcome = "return"
        /\ last_call.value = Some(TRUE)

\* the cluster backend was initialized, the cell holds false, the connection
\* is lost and get has answered true
C5_Witness ==
    /\ init_ok /\ use_dask = Some(TRUE) /\ dask_var # None
    /\ cell = Some(FALSE) /\ ~cluster_up
    /\ last_call.op = "get" /\ last_call.read_failed
    /\ last_call.value = Some(TRUE)

\* C21: with the local backend, initialize(False) leaves the value false, a
\* set call stores its argument (so the value is that of the most recent
\* set), nothing else changes the value, and a get call returns the value as
\* it stands and leaves it unchanged.
C21_LocalLastWriteWins ==
    [][/\ (StateCall("initialize") /\ last_call'.outcome = "return"
            /\ use_dask' = Some(FALSE)) => local_state' = FALSE
       /\ use_dask = Some(FALSE) =>
              /\ use_dask' = Some(FALSE)
              /\ StateCall("set") =>
                     /\ last_call'.outcome = "return"
                     /\ local_state' = last_call'.arg[1]
              /\ StateCall("get") =>
                     /\ last_call'.outcome = "return"
                     /\ last_call'.value = Some(local_state)
                     /\ local_state' = local_state
              /\ ~StateCall("set") => local_state' = local_state]_vars

\* a stop request made with the local backend, then withdrawn, and a get
\* that answered false
C21_Witness ==
    /\ init_ok /\ use_dask = Some(FALSE) /\ ncalls = MaxCalls
    /\ last_call.op = "get" /\ last_call.outcome = "return"
    /\ last_call.value = Some(FALSE) /\ local_state = FALSE

\* C25: as long as no initialize call has succeeded the state is
\* uninitialized: a failed initialize leaves _use_dask unset, so get and set
\* still fail with the not-initialized error and a later initialize succeeds.
C25_FailedInitializeLeavesUninitialized ==
    ~init_ok =>
        /\ use_dask = None
        /\ last_call.op \in {"get", "set"} => last_call.outcome = "NotInitialized"

(***************************************************************************)
(* Properties of the Dispatcher.                                           *)
(***************************************************************************)
NoInput == Flatten(result.file_paths) = <<>> /\ result.urls = <<>>

\* C6: a second run of _bucket_files (alone or inside dispatch) on the same
\* Dispatcher, registry and input leaves exactly the buckets of the run
\* before: nothing is carried over and nothing differs.
C6_RoutingRepeatable ==
    [][(bucket_runs >= 1 /\ bucket_runs' = bucket_runs + 1)
           => intermediate_map' = intermediate_map]_vars

\* two runs over two text files and two URLs
C6_Witness ==
    /\ bucket_runs = 2
    /\ Len(intermediate_map["TextProcessor"]) = 2
    /\ Len(intermediate_map["URLProcessor"]) = 2

\* C9: a registered processor type whose bucket is empty has no task in the
\* task list dispatch builds, and no results.jsonl is created for it.
C9_EmptyBucketNoTask ==
    \A p \in ProcessorSet :
        (bucket_runs >= 1 /\ intermediate_map[p] = <<>>) =>
            /\ \A k \in 1..Len(gen.task_lists) : gen.task_lists[k][1] # p
            /\ disk[p] = None

\* a dispatch run to its end that wrote the results of one type while the
\* bucket of another was empty
C9_Witness ==
    /\ gen.status = "finished" /\ Len(yielded) >= 1
    /\ intermediate_map["PDFProcessor"] = <<>>
    /\ disk["PDFProcessor"] = None
    /\ disk["TextProcessor"] # None

\* C10 as stated: in local and in distributed mode a dispatch with no files
\* and no URLs returns normally, and its result sequence is empty.
C10_EmptyDispatchReturns ==
    NoInput =>
        /\ disp_call.op = "dispatch" => disp_call.outcome = "return"
        /\ disp_call.op = "next" =>
               disp_call.outcome = "StopIteration" /\ yielded = <<>>

TaskCount == Len(build_task_lists(intermediate_map, config, 1))

\* C11: in distributed mode the failure of one task does not abort the
\* dispatch: dispatch() of three tasks returns to its caller a result
\* sequence (the results of the tasks that succeeded and an error record
\* for the one that failed).
C11_DistributedDispatchReturns ==
    (config.distributed /\ disp_call.op = "dispatch"
        /\ disp_call.outcome \notin {"NoProcessorFound", "ConfigError"}
        /\ TaskCount = 3)
        => disp_call.outcome = "return"

\* C12: with output_path unset no results.jsonl (and no directory for it)
\* is created or appended to, whatever tasks have run.
C12_NoOutputPathNoFile ==
    config.output_path = None => \A p \in ProcessorSet : disk[p] = None

\* two tasks have run and yielded their results with output_path unset
C12_Witness ==
    /\ config.output_path = None
    /\ gen.status = "finished" /\ Len(yielded) >= 2
    /\ \A p \in ProcessorSet : disk[p] = None

\* C13: the bucket map has exactly one entry per registered processor
\* type, also for a type without items, and the URL processor's entry is
\* the URL collection: every URL, in input order, and in no other bucket.
C13_OneBucketPerType ==
    bucket_runs >= 1 =>
        /\ DOMAIN intermediate_map = ProcessorSet
        /\ intermediate_map["URLProcessor"] = result.urls
        /\ \A p \in ProcessorSet \ {"URLProcessor"} :
               \A i \in 1..Len(intermediate_map[p]) :
                   \A j \in 1..Len(result.urls) :
                       intermediate_map[p][i] # result.urls[j]

\* a type without items beside the two URLs and a text file
C13_Witness ==
    /\ bucket_runs >= 1
    /\ intermediate_map["PDFProcessor"] = <<>>
    /\ Len(intermediate_map["TextProcessor"]) >= 1
    /\ intermediate_map["URLProcessor"] = Urls

\* the files of the input, in input order, that are routed to p
RECURSIVE RoutedTo(_, _)
RoutedTo(files, p) ==
    IF files = <<>> THEN <<>>
    ELSE (IF from_file(Head(files)) = Some(p) THEN <<Head(files)>> ELSE <<>>)
         \o RoutedTo(Tail(files), p)

\* C14: within each bucket the files are in the relative order they have
\* in the input collection.
C14_StableRouting ==
    bucket_runs >= 1 =>
        \A p \in ProcessorSet \ {"URLProcessor"} :
            intermediate_map[p] = RoutedTo(Flatten(result.file_paths), p)

\* b before a in the input, in two lists, and b before a in the bucket
C14_Witness ==
    /\ bucket_runs >= 1
    /\ result.file_paths = << <<File("b", ".TXT", 2)>>, <<File("a", ".txt", 1)>> >>
    /\ intermediate_map["TextProcessor"] = <<File("b", ".TXT", 2), File("a", ".txt", 1)>>

(***************************************************************************)
(* Properties of the placement order of batch_list.                        *)
(***************************************************************************)
SortedItems == SortDesc(SizedItems(lst))

\* batches and batch_sizes when the k-th item of the sorted list is placed
BeforeItem(k) ==
    PlaceAll([batches |-> << <<>> >>, batch_sizes |-> <<0>>],
             SubSeq(SortedItems, 1, k - 1), Cap)

\* C15: an item that some open batch can still take (aggregate + cost <= C)
\* goes to the open batch left with the least capacity, the earliest such
\* batch on ties; a new batch of that item alone is opened only when no
\* open batch can take it.
C15_BestFitPlacement ==
    Called =>
        /\ batches = BeforeItem(Len(SortedItems) + 1).batches
        /\ \A k \in 1..Len(SortedItems) :
               LET st      == BeforeItem(k)
                   item    == SortedItems[k]
                   left(i) == Cap - (st.batch_sizes[i] + item[2])
                   fitting == {i \in 1..Len(st.batch_sizes) : left(i) >= 0}
                   after   == BeforeItem(k + 1).batches
               IN  IF fitting # {}
                   THEN \E i \in fitting :
                           /\ \A j \in fitting :
                                  left(i) < left(j) \/ (left(i) = left(j) /\ i <= j)
                           /\ after = [st.batches EXCEPT ![i] = Append(@, item[1])]
                   ELSE after = Append(st.batches, <<item[1]>>)

OfCost(s, c) == SelectSeq(s, LAMBDA o : get_file_len(o) = c)

RECURSIVE IsSubseq(_, _)
IsSubseq(s, t) ==
    IF s = <<>> THEN TRUE
    ELSE IF t = <<>> THEN FALSE
    ELSE IF Head(s) = Head(t) THEN IsSubseq(Tail(s), Tail(t))
    ELSE IsSubseq(s, Tail(t))

\* C16: items are placed by cost descending, equal costs in bucket order:
\* the placement order has no smaller cost before a larger one and keeps
\* the bucket order among equal costs, and so has every batch.
C16_DescendingStableOrder ==
    Called =>
        /\ \A i, j \in 1..Len(SortedItems) :
               i < j => SortedItems[i][2] >= SortedItems[j][2]
        /\ \A c \in {get_file_len(o) : o \in Range(lst)} \ {UNSIZED} :
               OfCost([i \in 1..Len(SortedItems) |-> SortedItems[i][1]], c)
                   = OfCost(lst, c)
        /\ \A k \in 1..Len(batches) :
               /\ \A i, j \in 1..Len(batches[k]) :
                      i < j => get_file_len(batches[k][i]) >= get_file_len(batches[k][j])
               /\ \A o \in Range(batches[k]) :
                      IsSubseq(OfCost(batches[k], get_file_len(o)),
                               OfCost(lst, get_file_len(o)))

\* one batch with a larger item first and then two different items of one
\* cost, which stand in the bucket as b before a
C16_Witness ==
    /\ Called
    /\ lst = <<Obj("b", 1), Obj("a", 1), Obj("a", 2)>>
    /\ batches = << <<Obj("a", 2), Obj("b", 1), Obj("a", 1)>> >>

(***************************************************************************)
(* Properties of the local dispatch.                                       *)
(***************************************************************************)
\* the samples of the yielded results of processor type p, in order
RECURSIVE YieldedOf(_, _)
YieldedOf(k, p) ==
    IF k = 0 THEN <<>>
    ELSE YieldedOf(k - 1, p)
         \o (IF gen.task_lists[k][1] = p THEN yielded[k] ELSE <<>>)

\* C17: in local mode the results are yielded in task-list order, exactly
\* one per task, each persisted before it is yielded, and the sequence
\* ends after the last task.
C17_OneResultPerTaskInOrder ==
    /\ Len(yielded) <= Len(gen.task_lists)
    /\ \A k \in 1..Len(yielded) : yielded[k] = processor_result(gen.task_lists[k])
    /\ (config.output_path # None /\ bucket_runs = 1) =>
           \A p \in ProcessorSet :
               YieldedOf(Len(yielded), p) = (IF disk[p] = None THEN <<>> ELSE disk[p][1])
    /\ gen.status = "finished" => Len(yielded) = Len(gen.task_lists)

\* C18: the result sequence of local mode is lazy and cannot be restarted:
\* dispatch() invokes no processor and persists nothing, the processor of
\* task k runs only in the k-th next(), what is not requested is neither run
\* nor persisted, and next() on a sequence that has ended yields nothing.
C18_LazyNotRestartable ==
    [][/\ disp_call'.op = "dispatch" =>
              /\ disk' = disk
              /\ disp_call'.outcome = "return" =>
                     gen'.invoked = 0 /\ gen'.pos = 0 /\ yielded' = <<>>
       /\ gen'.invoked <= gen'.requests
       /\ gen'.pos <= gen'.invoked
       /\ Len(yielded') = gen'.pos
       /\ (disp_call'.op # "dispatch" /\ (disk' # disk \/ gen'.invoked # gen.invoked)) =>
              /\ disp_call'.op = "next"
              /\ gen'.requests = gen.requests + 1
              /\ gen'.invoked = gen.invoked + 1
              /\ gen'.invoked = gen'.requests
       /\ (gen.status = "finished" /\ disp_call'.op = "next") =>
              /\ disp_call'.outcome = "StopIteration"
              /\ yielded' = yielded /\ disk' = disk
              /\ gen'.invoked = gen.invoked /\ gen'.status = "finished"]_vars

\* two tasks consumed, the sequence ended, and next() called once more
C18_Witness ==
    /\ gen.status = "finished" /\ Len(gen.task_lists) >= 2
    /\ Len(yielded) = Len(gen.task_lists)
    /\ gen.requests = Len(gen.task_lists) + 2
    /\ disp_call = [op |-> "next", outcome |-> "StopIteration"]

\* C19: a processor that raises in one task does not crash the local
\* dispatch: the error does not reach the caller, and the sequence ends
\* only after every task of the list has been run.
C19_TaskErrorTolerated ==
    /\ disp_call.outcome # "ProcessorError"
    /\ (gen.status = "finished" /\ config.processor_config = None) =>
           gen.invoked = Len(gen.task_lists)

\* C20: a configuration error makes the dispatch fail before any task has
\* been executed or persisted.
C20_ConfigErrorBeforeAnyTask ==
    disp_call.outcome = "ConfigError" =>
        /\ gen.invoked = 0
        /\ yielded = <<>>
        /\ \A p \in ProcessorSet : disk[p] = None

\* C24: every task of the task list that dispatch builds carries a
\* non-empty batch.
C24_NoEmptyBatchInTask ==
    \A k \in 1..Len(gen.task_lists) : gen.task_lists[k][2] # <<>>

(***************************************************************************)
(* Properties of initialize under concurrency.                             *)
(***************************************************************************)
\* C22: of the concurrent initialize calls at most one returns normally,
\* and once one has returned no step of another initialize call changes
\* the backend selection or the should_stop value.
C22_InitializeOnceUnderConcurrency ==
    [][\A t \in Threads :
          /\ th'[t].outcome = "return" =>
                 \A u \in Threads \ {t} : th'[u].outcome # "return"
          /\ (init_ok /\ th'[t] # th[t]) =>
                 /\ use_dask' = use_dask
                 /\ local_state' = local_state
                 /\ cell' = cell]_vars

(***************************************************************************)
(* Properties of TextProcessor.                                            *)
(***************************************************************************)
Unreadable == {"missing", "denied", "not_utf8"}

\* C23: process_one_file returns an empty sample (no text, no modalities,
\* the file path as metadata) for a file that is missing, may not be read
\* or is not UTF-8, and raises none of these errors, so the files after it
\* in the batch are still processed.
C23_UnreadableFileGivesEmptySample ==
    /\ \A k \in 1..Len(txt_samples) :
           txt_files[k].condition \in Unreadable =>
               txt_samples[k] = [text |-> <<>>, modalities |-> <<>>,
                                 metadata |-> [file_path |-> txt_files[k].file_path]]
    /\ (txt_call.file # None /\ txt_call.file[1].condition \in Unreadable) =>
           txt_call.outcome = "return"
    /\ (\A k \in 1..Len(txt_files) :
            txt_files[k].condition \in Unreadable \cup {"readable"}) =>
           /\ txt_call.outcome \in {"none", "return"}
           /\ \A k \in 1..Len(txt_samples) :
                  txt_samples[k].metadata.file_path = txt_files[k].file_path

\* a file that is not UTF-8 gave an empty sample and the file after it was
\* read and cleaned
C23_Witness ==
    /\ Len(txt_files) = 2 /\ Len(txt_samples) = 2
    /\ txt_files[1].condition = "not_utf8"
    /\ txt_samples[1].text = <<>>
    /\ txt_files[2].condition = "readable" /\ txt_files[2].text = " x "
    /\ txt_samples[2].text = <<"x">>

=============================================================================
